---- MODULE Spec2Model ----
(***************************************************************************)
(* A model of rice_calculator.py: the RICE scorer, the per-user project    *)
(* store kept in a Google Sheets worksheet (load_user_projects,            *)
(* save_user_projects, get_worksheet) and the handlers of main (add,       *)
(* clear, page render with its ranking).                                   *)
(*                                                                         *)
(* Numbers.  Every number the program handles here has at most two         *)
(* decimals, so a number is modelled by its count of hundredths: 0.25 is   *)
(* 25, 80 is 8000, 66.5 is 6650.  The float arithmetic of                  *)
(* calculate_rice_score is modelled by exact fractions [n, d] in lowest    *)
(* terms (see Frac); where a float's rounding error can decide a result    *)
(* (round on a tie) every result is allowed.                               *)
(*                                                                         *)
(* Cells.  A worksheet cell, and a value of a project dict, is a tagged    *)
(* value: Str(s) for text, Num(h) for a number of h hundredths.            *)
(***************************************************************************)
EXTENDS Integers, Sequences, FiniteSets, TLC

VARIABLES
    gc,             \* init_gsheets' cached result: "client" or "None"
    sheets,         \* per user: [exists, rows], the user's worksheet
    session_state,  \* st.session_state['projects_<user>'], per user
    last,           \* what the last handler or call did (history)
    sessions,       \* two concurrent sessions running the add handler
    call            \* a call of calculate_rice_score: arguments and result

vars == <<gc, sheets, session_state, last, sessions, call>>

(***************************************************************************)
(* Bounds of the model                                                     *)
(***************************************************************************)
MaxProjects == 2

(***************************************************************************)
(* Values                                                                  *)
(***************************************************************************)
Str(s) == [t |-> "s", v |-> s]
Num(h) == [t |-> "n", v |-> h]

\* users = ["Jonas", "Hanne", "Ferenc", "Rolf"]; the tables of two users
\* share nothing, and one user is modelled.
Users == {"Jonas"}

\* The header row written by get_worksheet and save_user_projects.
HeaderNames == <<"Project", "Reach (%)", "Impact", "Confidence (%)",
                 "Effort (months)", "RICE Score">>

Header == [i \in 1..6 |-> Str(HeaderNames[i])]

HeaderKeys == {HeaderNames[i] : i \in 1..6}

\* options=[0.25, 0.5, 1, 2, 3] of the impact slider, in hundredths.
ImpactOptions == {25, 50, 100, 200, 300}

(***************************************************************************)
(* Exact fractions, standing for the floats of the scorer                  *)
(***************************************************************************)
RECURSIVE Gcd(_, _)
Gcd(a, b) == IF b = 0 THEN a ELSE Gcd(b, a % b)

Frac(n, d) == LET g == Gcd(n, d) IN
              IF n = 0 THEN [n |-> 0, d |-> 1] ELSE [n |-> n \div g, d |-> d \div g]

FMul(x, y) == Frac(x.n * y.n, x.d * y.d)

\* x / y; Python raises ZeroDivisionError when y is 0.
ZeroDivisionError == [raised |-> "ZeroDivisionError"]

FDiv(x, y) == IF y.n = 0 THEN ZeroDivisionError ELSE Frac(x.n * y.d, x.d * y.n)

\* A widget value in hundredths as a fraction.
OfHundredths(h) == Frac(h, 100)

\* Mutant: the scorer without its effort == 0 guard.
calculate_rice_score_unguarded(reach, impact, confidence, effort) ==
    FDiv(FMul(FMul(reach, impact), confidence), effort)

\* calculate_rice_score(reach, impact, confidence, effort)
calculate_rice_score(reach, impact, confidence, effort) ==
    IF effort.n = 0
    THEN Frac(0, 1)
    ELSE FDiv(FMul(FMul(reach, impact), confidence), effort)

\* round(x, 2), in hundredths: the values it can return.  Python rounds the
\* float to the nearest value of two decimals.  When the exact quotient lies
\* halfway between two of them, the float that stands for it may lie on
\* either side (or on the tie, which rounds to even), so either neighbour
\* can be the result.
Round2(x) ==
    LET q == (100 * x.n) \div x.d
        r == (100 * x.n) % x.d
    IN  IF 2 * r > x.d THEN {q + 1}
        ELSE IF 2 * r < x.d THEN {q}
        ELSE {q, q + 1}

(***************************************************************************)
(* The worksheet, as gspread shows it                                      *)
(***************************************************************************)
NoSheet == [exists |-> FALSE, rows |-> <<>>]

Sheet(rows) == [exists |-> TRUE, rows |-> rows]

\* The text a cell is displayed with: what get_all_records reads.
FmtNum(h) ==
    LET whole == ToString(h \div 100)
        frac  == h % 100
    IN  IF frac = 0 THEN whole
        ELSE IF frac % 10 = 0 THEN whole \o "." \o ToString(frac \div 10)
        ELSE IF frac < 10 THEN whole \o ".0" \o ToString(frac)
        ELSE whole \o "." \o ToString(frac)

Fmt(cell) == IF cell.t = "n" THEN FmtNum(cell.v) ELSE cell.v

\* int(s) / float(s) on the texts of the model: -1 when neither parses.
\* "007" parses as the integer 7.
ParseNumber(s) == IF s = "007" THEN 700 ELSE -1

\* gspread's numericise, applied by get_all_records to every data cell's
\* displayed text: a text that parses as a number becomes that number.  A
\* stored number is displayed with its (at most two) decimals and parses back
\* to itself.
numericise(cell) ==
    IF cell.t = "n" THEN cell
    ELSE IF ParseNumber(cell.v) >= 0 THEN Num(ParseNumber(cell.v))
    ELSE cell

\* worksheet.get_all_records(): the first row gives the keys, every further
\* row a dict of its numericised cells.  No row at all gives no record; a
\* first row with a repeated text raises.
get_all_records(rows) ==
    IF rows = <<>> THEN [raised |-> FALSE, records |-> <<>>]
    ELSE LET keys == [i \in 1..6 |-> Fmt(rows[1][i])]
             keySet == {keys[i] : i \in 1..6}
         IN  IF Cardinality(keySet) # 6
             THEN [raised |-> TRUE, records |-> <<>>]
             ELSE [raised |-> FALSE,
                   records |-> [j \in 1..(Len(rows) - 1) |->
                       [k \in keySet |->
                           numericise(rows[j + 1][CHOOSE i \in 1..6 : keys[i] = k])]]]

(***************************************************************************)
(* get_worksheet, load_user_projects, save_user_projects                   *)
(*                                                                         *)
(* The calls to the Sheets API can raise.  Which call raises is an input:  *)
(*   gwFault    "none", "open" (opening the spreadsheet or the worksheet   *)
(*              raises), "create" (add_worksheet raises), "header" (the    *)
(*              new worksheet's append_row raises)                         *)
(*   readFault  get_all_records raises                                     *)
(*   writeFault 0 none, 1 clear() raises, 2 the header's append_row        *)
(*              raises, 2 + i the append_row of project i raises           *)
(* A call that raises leaves the worksheet as it was.                      *)
(***************************************************************************)
GwFaults == {"none", "open", "create", "header"}

\* get_worksheet(gc, username): [ws: a worksheet was returned (not None),
\* sheet: the worksheet afterwards].
get_worksheet(g, sheet, gwFault) ==
    IF g = "None" THEN [ws |-> FALSE, sheet |-> sheet]
    ELSE IF gwFault = "open" THEN [ws |-> FALSE, sheet |-> sheet]
    ELSE IF sheet.exists THEN [ws |-> TRUE, sheet |-> sheet]
    ELSE IF gwFault = "create" THEN [ws |-> FALSE, sheet |-> sheet]
    ELSE IF gwFault = "header" THEN [ws |-> FALSE, sheet |-> Sheet(<<>>)]
    ELSE [ws |-> TRUE, sheet |-> Sheet(<<Header>>)]

\* load_user_projects(username): [records, sheet, failed: an error was
\* swallowed].
load_user_projects(g, sheet, gwFault, readFault) ==
    LET w == get_worksheet(g, sheet, gwFault)
        r == get_all_records(w.sheet.rows)
    IN  IF ~w.ws THEN [records |-> <<>>, sheet |-> w.sheet, failed |-> g # "None"]
        ELSE IF readFault \/ r.raised
             THEN [records |-> <<>>, sheet |-> w.sheet, failed |-> TRUE]
        ELSE [records |-> r.records, sheet |-> w.sheet, failed |-> FALSE]

\* Every outcome of a load, over the calls that can raise.
LoadOutcomes(g, sheet) ==
    {load_user_projects(g, sheet, gwFault, readFault) :
        gwFault \in GwFaults, readFault \in BOOLEAN}

\* The row save_user_projects appends for a project; a dict without one of
\* the six keys raises KeyError.
HasKeys(project) == HeaderKeys \subseteq DOMAIN project

\* Mutant: the reach and confidence columns written in each other's place.
RowOf_swapped(project) ==
    <<project["Project"], project["Confidence (%)"], project["Impact"],
      project["Reach (%)"], project["Effort (months)"], project["RICE Score"]>>

RowOf(project) == [i \in 1..6 |-> project[HeaderNames[i]]]

\* The loop of save_user_projects from project i on.
RECURSIVE AppendProjects(_, _, _, _)
AppendProjects(rows, projects, i, writeFault) ==
    IF i > Len(projects) THEN [ok |-> TRUE, rows |-> rows]
    ELSE IF ~HasKeys(projects[i]) \/ writeFault = 2 + i
         THEN [ok |-> FALSE, rows |-> rows]
    ELSE AppendProjects(Append(rows, RowOf(projects[i])), projects, i + 1, writeFault)

\* Mutant: the save without its header row.
save_user_projects_noheader(g, sheet, projects, gwFault, writeFault) ==
    LET w == get_worksheet(g, sheet, gwFault) IN
    IF ~w.ws
    THEN [ok |-> TRUE, sheet |-> w.sheet, stored |-> FALSE, raised |-> FALSE]
    ELSE IF writeFault = 1
    THEN [ok |-> FALSE, sheet |-> w.sheet, stored |-> TRUE, raised |-> TRUE]
    ELSE LET a == AppendProjects(<<>>, projects, 1, writeFault)
         IN  [ok |-> a.ok, sheet |-> Sheet(a.rows), stored |-> TRUE, raised |-> ~a.ok]

\* Mutant: the save without worksheet.clear().
save_user_projects_noclear(g, sheet, projects, gwFault, writeFault) ==
    LET w == get_worksheet(g, sheet, gwFault) IN
    IF ~w.ws
    THEN [ok |-> TRUE, sheet |-> w.sheet, stored |-> FALSE, raised |-> FALSE]
    ELSE IF writeFault = 1 \/ writeFault = 2
    THEN [ok |-> FALSE, sheet |-> w.sheet, stored |-> TRUE, raised |-> TRUE]
    ELSE LET a == AppendProjects(Append(w.sheet.rows, Header), projects, 1, writeFault)
         IN  [ok |-> a.ok, sheet |-> Sheet(a.rows), stored |-> TRUE, raised |-> ~a.ok]

\* Mutant: the save reporting failure when it has no worksheet.
save_user_projects_strict(g, sheet, projects, gwFault, writeFault) ==
    LET w == get_worksheet(g, sheet, gwFault) IN
    IF ~w.ws
    THEN [ok |-> FALSE, sheet |-> w.sheet, stored |-> FALSE, raised |-> FALSE]
    ELSE IF writeFault = 1
    THEN [ok |-> FALSE, sheet |-> w.sheet, stored |-> TRUE, raised |-> TRUE]
    ELSE IF writeFault = 2
    THEN [ok |-> FALSE, sheet |-> Sheet(<<>>), stored |-> TRUE, raised |-> TRUE]
    ELSE LET a == AppendProjects(<<Header>>, projects, 1, writeFault)
         IN  [ok |-> a.ok, sheet |-> Sheet(a.rows), stored |-> TRUE, raised |-> ~a.ok]

\* save_user_projects(username, projects): [ok: the value returned, sheet,
\* stored: a worksheet was written to, raised: a write raised].
save_user_projects(g, sheet, projects, gwFault, writeFault) ==
    LET w == get_worksheet(g, sheet, gwFault) IN
    IF ~w.ws
    THEN [ok |-> TRUE, sheet |-> w.sheet, stored |-> FALSE, raised |-> FALSE]
    ELSE IF writeFault = 1
    THEN [ok |-> FALSE, sheet |-> w.sheet, stored |-> TRUE, raised |-> TRUE]
    ELSE IF writeFault = 2
    THEN [ok |-> FALSE, sheet |-> Sheet(<<>>), stored |-> TRUE, raised |-> TRUE]
    ELSE LET a == AppendProjects(<<Header>>, projects, 1, writeFault)
         IN  [ok |-> a.ok, sheet |-> Sheet(a.rows), stored |-> TRUE, raised |-> ~a.ok]

WriteFaults(projects) == 0..(Len(projects) + 2)

\* Every outcome of a save, over the calls that can raise.
SaveOutcomes(g, sheet, projects) ==
    {save_user_projects(g, sheet, projects, gwFault, writeFault) :
        gwFault \in GwFaults, writeFault \in WriteFaults(projects)}

(***************************************************************************)
(* main: the sidebar form, the add and clear handlers, the render          *)
(***************************************************************************)
\* What the sidebar widgets hold when "Add Project" is clicked: name (text),
\* reach and confidence (integers 0..100), impact and effort (hundredths).
Form(name, reach, impact, confidence, effort) ==
    [name |-> name, reach |-> reach, impact |-> impact,
     confidence |-> confidence, effort |-> effort]

\* Mutant: the confidence percentage passed to the scorer as it is.
rice_score_percent(form) ==
    calculate_rice_score(Frac(form.reach, 1), OfHundredths(form.impact),
                         Frac(form.confidence, 1), OfHundredths(form.effort))

\* rice_score of the add handler: confidence / 100, then the scorer.
rice_score(form) ==
    LET confidence_decimal == Frac(form.confidence, 100)
    IN  calculate_rice_score(Frac(form.reach, 1), OfHundredths(form.impact),
                             confidence_decimal, OfHundredths(form.effort))

\* new_project of the add handler, rounded being round(rice_score, 2).
new_project(form, rounded) ==
    [k \in HeaderKeys |->
        CASE k = "Project"         -> Str(form.name)
          [] k = "Reach (%)"       -> Num(100 * form.reach)
          [] k = "Impact"          -> Num(form.impact)
          [] k = "Confidence (%)"  -> Num(100 * form.confidence)
          [] k = "Effort (months)" -> Num(form.effort)
          [] OTHER                 -> Num(rounded)]

\* The records the add handler can build from a form.
NewProjects(form) ==
    {new_project(form, rounded) : rounded \in Round2(rice_score(form))}

\* df.sort_values('RICE Score', ascending=False): pandas sorts with its
\* default kind 'quicksort', which is not a stable sort, so rows of equal
\* score may come out in any order.  The set of the orders it can produce.
ScoreOf(project) == project["RICE Score"].v

\* A frame without the 'RICE Score' column, or with a text in it beside
\* numbers, cannot be sorted: sort_values raises and nothing is ranked.
Sortable(projects) ==
    \A i \in 1..Len(projects) :
        /\ "RICE Score" \in DOMAIN projects[i]
        /\ projects[i]["RICE Score"].t = "n"

IsDescending(projects) ==
    \A i \in 1..(Len(projects) - 1) : ScoreOf(projects[i]) >= ScoreOf(projects[i + 1])

Orderings(n) == {p \in [1..n -> 1..n] : \A i, j \in 1..n : p[i] = p[j] => i = j}

IsAscending(projects) ==
    \A i \in 1..(Len(projects) - 1) : ScoreOf(projects[i]) <= ScoreOf(projects[i + 1])

\* Mutant: the sort without ascending=False.
sort_values_ascending(projects) ==
    IF ~Sortable(projects) THEN {<<>>}
    ELSE {[i \in 1..Len(projects) |-> projects[p[i]]] : p \in
            {q \in Orderings(Len(projects)) :
                IsAscending([i \in 1..Len(projects) |-> projects[q[i]]])}}

sort_values(projects) ==
    IF ~Sortable(projects) THEN {<<>>}
    ELSE {[i \in 1..Len(projects) |-> projects[p[i]]] : p \in
            {q \in Orderings(Len(projects)) :
                IsDescending([i \in 1..Len(projects) |-> projects[q[i]]])}}

NoOp ==
    [op |-> "init", user |-> "", new |-> <<>>, before |-> NoSheet, mid |-> NoSheet,
     loaded |-> <<>>, loadFailed |-> FALSE, projects |-> <<>>,
     saved |-> FALSE, ok |-> FALSE, stored |-> FALSE, raised |-> FALSE,
     shown |-> <<>>, shownFailed |-> FALSE, ranked |-> <<>>, differed |-> FALSE]

\* The script's tail from line 218 on: load, session_state, the ranking.
\* h holds what the handler did before it.
RenderTail(u, h, sheet) ==
    \E l \in LoadOutcomes(gc, sheet) : \E ranked \in sort_values(l.records) :
        /\ sheets' = [sheets EXCEPT ![u] = l.sheet]
        /\ session_state' = [session_state EXCEPT ![u] = l.records]
        /\ last' = [h EXCEPT !.user = u, !.shown = l.records,
                             !.shownFailed = l.failed, !.ranked = ranked]

\* A page render with no button clicked (a page load, a change of user).
Render(u) ==
    /\ RenderTail(u, [NoOp EXCEPT !.op = "render", !.before = sheets[u]], sheets[u])
    /\ UNCHANGED <<gc, sessions, call>>

\* "Add Project" clicked with an empty name: st.error, then the render.
AddRejected(u) ==
    /\ RenderTail(u, [NoOp EXCEPT !.op = "rejected", !.before = sheets[u]], sheets[u])
    /\ UNCHANGED <<gc, sessions, call>>

\* "Add Project" clicked with a name: load, append, save; on success the
\* rerun, on failure st.error; either way the script then loads and renders.
AddProject(u, form) ==
    /\ form.name # ""
    /\ \E new \in NewProjects(form) : \E l \in LoadOutcomes(gc, sheets[u]) :
        LET user_projects == Append(l.records, new) IN
        /\ Len(l.records) < MaxProjects
        /\ \E s \in SaveOutcomes(gc, l.sheet, user_projects) :
            RenderTail(u,
                [NoOp EXCEPT !.op = "add", !.before = sheets[u],
                             !.new = <<new>>,
                             !.loaded = l.records, !.loadFailed = l.failed,
                             !.projects = user_projects, !.saved = TRUE,
                             !.ok = s.ok, !.stored = s.stored,
                             !.raised = s.raised],
                s.sheet)
    /\ UNCHANGED <<gc, sessions, call>>

\* "Clear All Projects" clicked.  The button is on the page only when the
\* last render of this user showed projects; the click reruns the script,
\* which loads again and reaches the button only with projects loaded.
ClearProjects(u) ==
    /\ last.user = u
    /\ last.shown # <<>>
    /\ \E l \in LoadOutcomes(gc, sheets[u]) :
        LET h == [NoOp EXCEPT !.op = "clear", !.user = u, !.before = sheets[u],
                              !.loaded = l.records, !.loadFailed = l.failed]
        IN  IF l.records = <<>>
            THEN \* nothing to rank, no button in this run
                 /\ sheets' = [sheets EXCEPT ![u] = l.sheet]
                 /\ session_state' = [session_state EXCEPT ![u] = <<>>]
                 /\ last' = h
            ELSE \E s \in SaveOutcomes(gc, l.sheet, <<>>) :
                 LET hs == [h EXCEPT !.saved = TRUE, !.ok = s.ok,
                                     !.stored = s.stored, !.raised = s.raised]
                 IN  IF s.ok
                     THEN \* session_state = [], st.rerun(): the script runs again
                          RenderTail(u, hs, s.sheet)
                     ELSE \* st.error: the page keeps what this run loaded
                          \E ranked \in sort_values(l.records) :
                              /\ sheets' = [sheets EXCEPT ![u] = s.sheet]
                              /\ session_state' = [session_state EXCEPT ![u] = l.records]
                              /\ last' = [hs EXCEPT !.shown = l.records, !.ranked = ranked]
    /\ UNCHANGED <<gc, sessions, call>>

\* The process restarts: st.session_state is gone, init_gsheets runs again
\* (st.cache_resource keeps its result, a client or None, until then).
Restart ==
    /\ gc' \in {"client", "None"}
    /\ session_state' = [u \in Users |-> <<>>]
    /\ last' = [NoOp EXCEPT !.op = "restart"]
    /\ UNCHANGED <<sheets, sessions, call>>

\* The forms the add handler is exercised with: the two worked examples,
\* a text name that parses as a number, and two forms of equal score.
FormSamples ==
    { Form("Alpha", 80, 200, 90, 300),     \* 48.0
      Form("Beta", 70, 200, 95, 200),      \* 66.5
      Form("007", 80, 300, 90, 450) }      \* 48.0

NoSessions == <<>>

NoCall == [reach |-> 0, impact |-> 0, confidence |-> 0, effort |-> 0,
           done |-> FALSE, result |-> Frac(0, 1)]

Init ==
    /\ gc \in {"client", "None"}
    /\ sheets = [u \in Users |-> NoSheet]
    /\ session_state = [u \in Users |-> <<>>]
    /\ last = NoOp
    /\ sessions = NoSessions
    /\ call = NoCall

Next ==
    \/ \E u \in Users : Render(u)
    \/ \E u \in Users : AddRejected(u)
    \/ \E u \in Users, form \in FormSamples : AddProject(u, form)
    \/ \E u \in Users : ClearProjects(u)
    \/ Restart

Spec == Init /\ [][Next]_vars

(***************************************************************************)
(* SpecForm: the first add on an empty table, over a wide set of forms     *)
(***************************************************************************)
\* Widget values: reach and confidence 0..100, the five impacts, efforts
\* from 0.1 to 100.0.
FormInputs ==
    { Form(name, reach, impact, confidence, effort) :
        name \in {"Alpha", "007"},
        reach \in {0, 50, 70, 80, 100},
        impact \in ImpactOptions,
        confidence \in {0, 90, 95, 100},
        effort \in {10, 200, 300, 450, 10000} }

\* The first click of a fresh process.
FirstAdd(u, form) ==
    /\ last.op = "init"
    /\ AddProject(u, form)

NextForm == \E u \in Users, form \in FormInputs : FirstAdd(u, form)

SpecForm == Init /\ [][NextForm]_vars

(***************************************************************************)
(* SpecScore: calculate_rice_score over its whole domain, effort 0 too     *)
(***************************************************************************)
\* Arguments as the scorer's contract allows them: reach 0..100, an impact
\* option, a confidence fraction (hundredths of 0..1), effort >= 0.
InitScore ==
    /\ gc = "None"
    /\ sheets = [u \in Users |-> NoSheet]
    /\ session_state = [u \in Users |-> <<>>]
    /\ last = NoOp
    /\ sessions = NoSessions
    /\ \E reach \in {0, 50, 80, 100}, impact \in ImpactOptions,
          confidence \in {0, 90, 100}, effort \in {0, 10, 300} :
        call = [NoCall EXCEPT !.reach = reach, !.impact = impact,
                              !.confidence = confidence, !.effort = effort]

Score ==
    /\ ~call.done
    /\ call' = [call EXCEPT
                 !.done = TRUE,
                 !.result = calculate_rice_score(
                                Frac(call.reach, 1), OfHundredths(call.impact),
                                OfHundredths(call.confidence), OfHundredths(call.effort))]
    /\ UNCHANGED <<gc, sheets, session_state, last, sessions>>

NextScore == Score

SpecScore == InitScore /\ [][NextScore]_vars


(***************************************************************************)
(* SpecStore: load_user_projects and save_user_projects called directly,   *)
(* with any list of projects                                               *)
(***************************************************************************)
\* Two projects as the add handler builds them, one with a name that
\* parses as a number.
ProjectSamples ==
    NewProjects(Form("Alpha", 80, 200, 90, 300))
        \cup NewProjects(Form("007", 80, 300, 90, 450))

ProjectLists ==
    UNION {[1..n -> ProjectSamples] : n \in 0..MaxProjects}

\* load_user_projects(u)
ApiLoad(u) ==
    /\ \E l \in LoadOutcomes(gc, sheets[u]) :
        /\ sheets' = [sheets EXCEPT ![u] = l.sheet]
        /\ last' = [NoOp EXCEPT !.op = "load", !.user = u,
                                !.shown = l.records, !.shownFailed = l.failed]
    /\ UNCHANGED <<gc, session_state, sessions, call>>

\* save_user_projects(u, projects); differed: the table held other rows.
ApiSave(u, projects) ==
    /\ \E s \in SaveOutcomes(gc, sheets[u], projects) :
        /\ sheets' = [sheets EXCEPT ![u] = s.sheet]
        /\ last' = [NoOp EXCEPT !.op = "save", !.user = u,
                                !.differed = (Len(sheets[u].rows) > 1 /\ sheets[u] # s.sheet),
                                !.projects = projects, !.saved = TRUE, !.ok = s.ok,
                                !.stored = s.stored, !.raised = s.raised]
    /\ UNCHANGED <<gc, session_state, sessions, call>>

\* save_user_projects(u, projects) once more, right after a save of the
\* same projects; mid is the table between the two, ok / stored hold of
\* both calls, raised of either.
ApiSaveAgain(u) ==
    /\ last.op = "save"
    /\ last.user = u
    /\ \E s \in SaveOutcomes(gc, sheets[u], last.projects) :
        /\ sheets' = [sheets EXCEPT ![u] = s.sheet]
        /\ last' = [last EXCEPT !.op = "save_again", !.mid = sheets[u],
                                !.ok = last.ok /\ s.ok,
                                !.stored = last.stored /\ s.stored,
                                !.raised = last.raised \/ s.raised]
    /\ UNCHANGED <<gc, session_state, sessions, call>>

\* save_user_projects(u, load_user_projects(u)), then load_user_projects(u)
ApiRoundTrip(u) ==
    /\ \E l1 \in LoadOutcomes(gc, sheets[u]) :
       \E s \in SaveOutcomes(gc, l1.sheet, l1.records) :
       \E l2 \in LoadOutcomes(gc, s.sheet) :
        /\ sheets' = [sheets EXCEPT ![u] = l2.sheet]
        /\ last' = [NoOp EXCEPT !.op = "roundtrip", !.user = u,
                                !.differed = (Len(sheets[u].rows) > 1 /\ sheets[u] # s.sheet),
                                !.loaded = l1.records, !.loadFailed = l1.failed,
                                !.projects = l1.records, !.saved = TRUE,
                                !.ok = s.ok, !.stored = s.stored, !.raised = s.raised,
                                !.shown = l2.records, !.shownFailed = l2.failed]
    /\ UNCHANGED <<gc, session_state, sessions, call>>

NextStore ==
    \/ \E u \in Users : ApiLoad(u)
    \/ \E u \in Users, projects \in ProjectLists : ApiSave(u, projects)
    \/ \E u \in Users : ApiSaveAgain(u)
    \/ \E u \in Users : ApiRoundTrip(u)

SpecStore == Init /\ [][NextStore]_vars


(***************************************************************************)
(* SpecRace: two sessions run the add handler on the same user's table.    *)
(* Each call of the Sheets API is one step; no call raises here.  The      *)
(* worksheet exists, so get_worksheet only reads.                          *)
(***************************************************************************)
SessionIds == {1, 2}

Other(s) == 3 - s

\* Mutant: a session waits with its clear() while the other is in its save.
Runnable_locked(s, pc) ==
    /\ sessions[s].pc = pc
    /\ pc = "clear" => sessions[Other(s)].pc \notin {"header", "append"}

\* A session takes its next step whenever it is at it: the code holds no
\* lock on the table.
Runnable(s, pc) == sessions[s].pc = pc

SessionAt(u, form) ==
    [pc |-> "load", user |-> u, form |-> form, new |-> <<>>, projects |-> <<>>,
     i |-> 0, ok |-> FALSE, shown |-> <<>>]

InitRace ==
    /\ gc = "client"
    /\ \E rows \in {<<Header>>} \cup
                    {<<Header, RowOf(stored)>> :
                        stored \in NewProjects(Form("Beta", 70, 200, 95, 200))} :
        sheets = [u \in Users |-> Sheet(rows)]
    /\ session_state = [u \in Users |-> <<>>]
    /\ last = NoOp
    /\ call = NoCall
    /\ \E u \in Users :
        sessions = [s \in SessionIds |->
                       SessionAt(u, IF s = 1 THEN Form("Alpha", 80, 200, 90, 300)
                                             ELSE Form("007", 80, 300, 90, 450))]

\* rice_score, user_projects = load_user_projects(u),
\* user_projects.append(new_project)
SLoad(s) ==
    LET me == sessions[s]
        l  == load_user_projects(gc, sheets[me.user], "none", FALSE)
    IN  /\ Runnable(s, "load")
        /\ \E new \in NewProjects(me.form) :
            sessions' = [sessions EXCEPT ![s] =
               [me EXCEPT !.pc = "clear", !.new = <<new>>,
                          !.projects = Append(l.records, new)]]
        /\ UNCHANGED <<gc, sheets, session_state, last, call>>

\* worksheet.clear()
SClear(s) ==
    LET me == sessions[s] IN
    /\ Runnable(s, "clear")
    /\ sheets' = [sheets EXCEPT ![me.user] = Sheet(<<>>)]
    /\ sessions' = [sessions EXCEPT ![s] = [me EXCEPT !.pc = "header"]]
    /\ UNCHANGED <<gc, session_state, last, call>>

\* worksheet.append_row(header)
SHeader(s) ==
    LET me == sessions[s] IN
    /\ Runnable(s, "header")
    /\ sheets' = [sheets EXCEPT ![me.user] = Sheet(Append(sheets[me.user].rows, Header))]
    /\ sessions' = [sessions EXCEPT ![s] = [me EXCEPT !.pc = "append", !.i = 1]]
    /\ UNCHANGED <<gc, session_state, last, call>>

\* One turn of the loop: worksheet.append_row(project i); after the last
\* one the save returns True.  A project without the six keys raises
\* KeyError and the save returns False.
SAppend(s) ==
    LET me == sessions[s] IN
    /\ Runnable(s, "append")
    /\ IF ~HasKeys(me.projects[me.i])
       THEN /\ sessions' = [sessions EXCEPT ![s] = [me EXCEPT !.pc = "rerun"]]
            /\ UNCHANGED sheets
       ELSE /\ sheets' = [sheets EXCEPT ![me.user] =
                   Sheet(Append(sheets[me.user].rows, RowOf(me.projects[me.i])))]
            /\ sessions' = [sessions EXCEPT ![s] =
                   IF me.i = Len(me.projects)
                   THEN [me EXCEPT !.pc = "rerun", !.ok = TRUE]
                   ELSE [me EXCEPT !.i = me.i + 1]]
    /\ UNCHANGED <<gc, session_state, last, call>>

\* The script's load after the save (st.rerun() on success, line 219 when
\* the save failed).
SRerun(s) ==
    LET me == sessions[s]
        l  == load_user_projects(gc, sheets[me.user], "none", FALSE)
    IN  /\ Runnable(s, "rerun")
        /\ sessions' = [sessions EXCEPT ![s] =
               [me EXCEPT !.pc = "done", !.shown = l.records]]
        /\ UNCHANGED <<gc, sheets, session_state, last, call>>

NextRace ==
    \E s \in SessionIds :
        \/ SLoad(s)
        \/ SClear(s)
        \/ SHeader(s)
        \/ SAppend(s)
        \/ SRerun(s)

SpecRace == InitRace /\ [][NextRace]_vars

(***************************************************************************)
(* Claims                                                                  *)
(***************************************************************************)
\* The rows of a table as load sees them when nothing raises.
Stored(sheet) == get_all_records(sheet.rows).records

\* C1: the 'RICE Score' of the record an add builds (and, when the save
\* stored it, of the table's last row) is reach x impact x confidence/100
\* / effort rounded to two decimals: it lies within half a hundredth of the
\* exact quotient.  The two worked examples give 48.0 and 66.5.
C1_ScoreStored ==
    last.op = "add" =>
        LET new    == last.new[1]
            reach  == new["Reach (%)"].v \div 100
            impact == new["Impact"].v
            conf   == new["Confidence (%)"].v \div 100
            effort == new["Effort (months)"].v
            score  == new["RICE Score"].v
            diff   == 2 * score * effort - 2 * reach * impact * conf
        IN  /\ new["RICE Score"].t = "n"
            /\ diff <= effort /\ -diff <= effort
            /\ (reach = 80 /\ impact = 200 /\ conf = 90 /\ effort = 300) => score = 4800
            /\ (reach = 70 /\ impact = 200 /\ conf = 95 /\ effort = 200) => score = 6650
            /\ (last.stored /\ last.ok) =>
                   sheets[last.user].rows[Len(sheets[last.user].rows)][6] = Num(score)

\* C1 witness: the second worked example was added and stored with 66.5.
C1_Witness ==
    /\ last.op = "add" /\ last.stored /\ last.ok
    /\ last.new[1]["Reach (%)"] = Num(7000)
    /\ last.new[1]["Confidence (%)"] = Num(9500)
    /\ last.new[1]["Effort (months)"] = Num(200)
    /\ Len(sheets[last.user].rows) = 2
    /\ sheets[last.user].rows[2][6] = Num(6650)

\* C2: calculate_rice_score returns 0 whenever effort is 0, and no call
\* raises (no division by zero is attempted).
C2_ZeroEffort ==
    call.done =>
        /\ call.result # ZeroDivisionError
        /\ call.effort = 0 => call.result = Frac(0, 1)

\* C2 witness: a call with effort 0 and non-zero other arguments returned 0.
C2_Witness ==
    /\ call.done /\ call.effort = 0
    /\ call.reach = 80 /\ call.impact = 200 /\ call.confidence = 90
    /\ call.result = Frac(0, 1)

\* The table save_user_projects is meant to leave for a list of projects.
TableOf(projects) ==
    [i \in 1..(Len(projects) + 1) |->
        IF i = 1
        THEN <<Str("Project"), Str("Reach (%)"), Str("Impact"),
               Str("Confidence (%)"), Str("Effort (months)"), Str("RICE Score")>>
        ELSE <<projects[i - 1]["Project"], projects[i - 1]["Reach (%)"],
               projects[i - 1]["Impact"], projects[i - 1]["Confidence (%)"],
               projects[i - 1]["Effort (months)"], projects[i - 1]["RICE Score"]>>]

\* C3: a save that reached the worksheet and met no write error leaves
\* exactly the header row followed by the given projects in order, whatever
\* the table held; saving the same list again leaves the same table.
C3_SaveOverwrites ==
    (last.op \in {"save", "save_again"} /\ last.stored /\ ~last.raised) =>
        /\ sheets[last.user].rows = TableOf(last.projects)
        /\ last.op = "save_again" => sheets[last.user] = last.mid

\* C3 witness: two projects were saved twice over a table that held other
\* rows.
C3_Witness ==
    /\ last.op = "save_again" /\ last.stored /\ ~last.raised
    /\ last.differed
    /\ Len(last.projects) = 2 /\ last.projects[1] # last.projects[2]
    /\ Len(sheets[last.user].rows) = 3

AsLoaded(project) == [k \in DOMAIN project |-> numericise(project[k])]

\* C5 as stated: after an add whose save wrote the worksheet and reported
\* success, the stored collection is the collection stored before with the
\* new record appended.
C5_AddAppends ==
    (last.op = "add" /\ last.ok /\ last.stored) =>
        Stored(sheets[last.user]) =
            Stored(last.before) \o <<AsLoaded(last.new[1])>>

\* C6 as stated: with the store unavailable the save of an add reports
\* success and the load that follows in the session returns the added
\* record.
C6_SessionKeepsRecord ==
    (last.op = "add" /\ gc = "None") =>
        /\ last.ok
        /\ last.shown = <<last.new[1]>>
        /\ session_state[last.user] = <<last.new[1]>>

\* C7: after a clear whose save wrote the worksheet and reported success
\* the table holds only the header row and every load returns no project.
C7_ClearEmpties ==
    (last.op = "clear" /\ last.saved /\ last.ok /\ last.stored) =>
        /\ sheets[last.user].rows = <<Header>>
        /\ last.shown = <<>>
        /\ \A l \in LoadOutcomes(gc, sheets[last.user]) : l.records = <<>>

\* C7 witness: two stored projects were cleared.
C7_Witness ==
    /\ last.op = "clear" /\ last.saved /\ last.ok /\ last.stored
    /\ Len(last.before.rows) = 3 /\ Len(last.loaded) = 2
    /\ sheets[last.user].rows = <<Header>>

\* C8: a save reports failure exactly when it had a worksheet and a write
\* (clear, header, a row) raised; with no client or no worksheet it reports
\* success, and with no client it leaves the table as it was.
C8_SaveFailsOnlyOnWriteError ==
    last.saved =>
        /\ ~last.ok <=> (last.stored /\ last.raised)
        /\ ~last.ok => gc = "client"
        /\ ~last.stored => last.ok
        /\ gc = "None" => (last.ok /\ sheets[last.user] = last.before)

\* C8 witness: an add's save failed on a row after writing the header and
\* the first row.
C8_Witness ==
    /\ last.op = "add" /\ last.saved /\ ~last.ok /\ last.raised
    /\ Len(last.projects) = 2
    /\ Len(sheets[last.user].rows) = 2

\* ranked is shown rearranged by the one-to-one p.
Rearranged(ranked, shown, p) ==
    /\ Len(ranked) = Len(shown)
    /\ \A i \in 1..Len(shown) : ranked[i] = shown[p[i]]

\* C9 as stated: the ranking is the loaded projects in non-increasing score
\* order, and projects of equal score keep their loaded order.
C9_StableRanking ==
    last.op \in {"render", "add", "clear", "rejected"} =>
        \E p \in Orderings(Len(last.shown)) :
            /\ Rearranged(last.ranked, last.shown, p)
            /\ IsDescending(last.ranked)
            /\ \A i, j \in 1..Len(last.shown) :
                   (i < j /\ ScoreOf(last.ranked[i]) = ScoreOf(last.ranked[j]))
                       => p[i] < p[j]

\* C9 amended: the ranking is a permutation of the loaded projects in
\* non-increasing score order; the order of equal scores is not fixed.
C9_Ranking ==
    last.op \in {"render", "add", "clear", "rejected"} =>
        /\ IsDescending(last.ranked)
        /\ \E p \in Orderings(Len(last.shown)) :
               Rearranged(last.ranked, last.shown, p)

\* C9 witness: two projects loaded in increasing score order were ranked
\* the other way round.
C9_Witness ==
    /\ last.op = "render"
    /\ Len(last.shown) = 2
    /\ ScoreOf(last.shown[1]) < ScoreOf(last.shown[2])
    /\ last.ranked = <<last.shown[2], last.shown[1]>>

\* The row an add writes for its own project.
OwnRow(s) == RowOf(sessions[s].new[1])

HasRow(rows, row) == \E i \in 1..Len(rows) : rows[i] = row

BothDone == \A s \in SessionIds : sessions[s].pc = "done"

RaceRows == sheets[sessions[1].user].rows

\* C10: nothing keeps a session from clearing and rewriting the table
\* while the other session is in the middle of its save (a session waiting
\* at its clear can always take it), both saves report success, and all that
\* is sure of the final table is that it holds the project of one of the
\* two adds.
C10_NoMutualExclusion ==
    /\ sessions # NoSessions =>
        \A s \in SessionIds :
            (sessions[s].pc = "clear" /\ sessions[Other(s)].pc \in {"header", "append"})
                => ENABLED SClear(s)
    /\ (sessions # NoSessions /\ BothDone) =>
        /\ \A s \in SessionIds : sessions[s].ok
        /\ \E s \in SessionIds : HasRow(RaceRows, OwnRow(s))

\* C10 witness: both adds ran to their end, both saves reported success,
\* and the table lacks the project one of them added (a lost update).
C10_Witness ==
    /\ sessions # NoSessions /\ BothDone
    /\ \A s \in SessionIds : sessions[s].ok
    /\ \E s \in SessionIds : ~HasRow(RaceRows, OwnRow(s))

\* The other outcome C10 names: the final table holds rows written by both
\* saves (two header rows among them).
C10_MixedRows ==
    /\ sessions # NoSessions /\ BothDone
    /\ \A s \in SessionIds : sessions[s].ok /\ HasRow(RaceRows, OwnRow(s))
    /\ Cardinality({i \in 1..Len(RaceRows) : RaceRows[i] = Header}) = 2

====
